---- MODULE Spec2Model ----
(***************************************************************************)
(* Model of src-tauri/src/lib.rs: the desktop shell that negotiates a port *)
(* and a secret, starts the discobot-server sidecar, copies the sidecar's  *)
(* output events to a size-bounded log file, answers the two front-end     *)
(* queries and kills the sidecar on quit.                                  *)
(*                                                                         *)
(* File contents are sequences of chunks.  A chunk is either an extent of  *)
(* the file found on disk at startup (k = "old", the bytes lo..hi-1 of     *)
(* that file) or bytes a write call stored (k = "txt", the bytes lo..hi-1  *)
(* of a sequence of text tokens).  Extents keep the real sizes of the      *)
(* source (1 MB, 10 KB) checkable without enumerating a million bytes.     *)
(***************************************************************************)
EXTENDS Integers, Sequences, FiniteSets, TLC

\* ----------------------------------------------------------------- bounds
\* events the sidecar emits before it terminates
MaxEvents == 2
\* injected I/O failures per run
MaxFaults == 1

\* ------------------------------------------------------ program constants
MAX_SIZE == 1048576
KEEP_SIZE == 10240
SecretLen == 32
DevPort == 3001
DefaultSshPort == 3333

\* the 62-character alphabet of generate_secret
CHARSET ==
  << "a","b","c","d","e","f","g","h","i","j","k","l","m",
     "n","o","p","q","r","s","t","u","v","w","x","y","z",
     "A","B","C","D","E","F","G","H","I","J","K","L","M",
     "N","O","P","Q","R","S","T","U","V","W","X","Y","Z",
     "0","1","2","3","4","5","6","7","8","9" >>

\* ------------------------------------------------------------ input sets
\* what the host may answer at startup: the port of the bind to 127.0.0.1:0,
\* whether 127.0.0.1:3333 can be bound and, if not, the port of the second
\* bind to 127.0.0.1:0, and the 32 draws rng.random_range(0..CHARSET.len())
Hosts ==
  { [port |-> 49152, ssh_free |-> TRUE, port2 |-> 49153,
     rnd |-> [i \in 1..SecretLen |-> 0]],
    [port |-> 65535, ssh_free |-> FALSE, port2 |-> 49152,
     rnd |-> [i \in 1..SecretLen |-> (i * 7 + 54) % Len(CHARSET)]] }
\* sizes of the log file found on disk at startup
LogSizes == {MAX_SIZE, MAX_SIZE + 1, 2 * MAX_SIZE + 5}
\* bytes of an output line: LF and CR end it
LF == 10
CR == 13

NoChild == 0
NoFile == [exists |-> FALSE, data |-> <<>>]

\* ------------------------------------------------------------ file model
\* a text token: a string of ASCII characters, one byte each, or one
\* character "U+n:c" with code point c, which takes n bytes of UTF-8
TokLen(t) ==
  IF Len(t) > 2 /\ SubSeq(t, 1, 2) = "U+"
  THEN CASE SubSeq(t, 3, 3) = "1" -> 1 [] SubSeq(t, 3, 3) = "2" -> 2
         [] SubSeq(t, 3, 3) = "3" -> 3 [] OTHER -> 4
  ELSE Len(t)

RECURSIVE SumLen(_)
SumLen(toks) == IF toks = <<>> THEN 0 ELSE TokLen(Head(toks)) + SumLen(Tail(toks))

\* the bytes lo..hi-1 of the file found at startup
OldChunk(lo, hi) == [k |-> "old", lo |-> lo, hi |-> hi, s |-> <<>>]
\* the bytes lo..hi-1 of the text toks; toks has no token outside lo..hi-1
TxtPart(toks, lo, hi) == [k |-> "txt", lo |-> lo, hi |-> hi, s |-> toks]
\* the whole text toks
TxtChunk(toks) == TxtPart(toks, 0, SumLen(toks))

ChunkLen(c) == c.hi - c.lo

RECURSIVE DataLen(_)
DataLen(data) == IF data = <<>> THEN 0 ELSE ChunkLen(Head(data)) + DataLen(Tail(data))

\* fs::metadata(path).len()
FileSize(f) == DataLen(f.data)

\* toks without the leading tokens that end at or before byte lo, and the
\* offset of byte lo in what is left
RECURSIVE SkipToks(_, _)
SkipToks(toks, lo) ==
  IF toks # <<>> /\ TokLen(Head(toks)) <= lo
  THEN SkipToks(Tail(toks), lo - TokLen(Head(toks)))
  ELSE [s |-> toks, lo |-> lo]

\* the leading tokens of toks that begin before byte hi
RECURSIVE TakeToks(_, _)
TakeToks(toks, hi) ==
  IF toks = <<>> \/ hi <= 0 THEN <<>>
  ELSE <<Head(toks)>> \o TakeToks(Tail(toks), hi - TokLen(Head(toks)))

\* the bytes a..b-1 of the chunk c, counted from the start of the chunk
Part(c, a, b) ==
  IF a >= b THEN <<>>
  ELSE IF c.k = "old" THEN <<OldChunk(c.lo + a, c.lo + b)>>
  ELSE LET from == SkipToks(c.s, c.lo + a)
           to == from.lo + (b - a)
       IN  <<TxtPart(TakeToks(from.s, to), from.lo, to)>>

\* seek to pos, then read_to_end: the bytes of data from offset pos on
RECURSIVE ReadFrom(_, _)
ReadFrom(data, pos) ==
  IF data = <<>> THEN <<>>
  ELSE IF pos <= 0 THEN data
  ELSE IF pos >= ChunkLen(Head(data)) THEN ReadFrom(Tail(data), pos - ChunkLen(Head(data)))
  ELSE Part(Head(data), pos, ChunkLen(Head(data))) \o Tail(data)

\* the first n bytes of data
RECURSIVE TakeBytes(_, _)
TakeBytes(data, n) ==
  IF data = <<>> \/ n <= 0 THEN <<>>
  ELSE IF n >= ChunkLen(Head(data))
       THEN <<Head(data)>> \o TakeBytes(Tail(data), n - ChunkLen(Head(data)))
       ELSE Part(Head(data), 0, n)

\* write_all(buf) of which the OS accepts the first `accepted` bytes: what
\* the file holds afterwards
WriteAll(data, buf, accepted) == data \o TakeBytes(buf, accepted)

\* write_all(buf) returns Ok when every byte was accepted
WriteOk(buf, accepted) == accepted >= DataLen(buf)

\* the bytes a failing write_all of n bytes had accepted before the error:
\* any number short of n
FailedWrites(n) == 0..(n - 1)

\* the outcomes of a write_all of buf: all bytes, or a failure
WriteOutcomes(buf, canFail) ==
  {DataLen(buf)} \cup (IF canFail THEN FailedWrites(DataLen(buf)) ELSE {})

\* chrono::Local::now().format("%Y-%m-%d %H:%M:%S"): 19 characters
Timestamp == "YYYY-mm-dd HH:MM:SS"


\* ------------------------------------------------------------- log path
\* get_log_file_path(): Err when neither state_dir nor data_dir is known or
\* create_dir_all fails, else Ok(<dir>/discobot/logs/server.log)
PathFaults == {"no_dir", "mkdir"}
get_log_file_path(fault) == IF fault \in PathFaults THEN "Err" ELSE "Ok"

\* ------------------------------------------------------------ compaction
\* the truncation message of truncate_log_file
Banner(file_size, kept) ==
  << "=== Log truncated at ", Timestamp, " (was ", ToString(file_size),
     " bytes, keeping last ", ToString(kept), " bytes) ===\n" >>

\* mutant: the tail starts one byte late
SeekPos_OffByOne(file_size) ==
  IF file_size > KEEP_SIZE THEN file_size - KEEP_SIZE + 1 ELSE 0

SeekPos(file_size) == IF file_size > KEEP_SIZE THEN file_size - KEEP_SIZE ELSE 0

\* mutant: a file of exactly MAX_SIZE bytes is truncated too
SmallEnough_Strict(file_size) == file_size < MAX_SIZE

\* `file_size <= MAX_SIZE`: no need to truncate
SmallEnough(file_size) == file_size <= MAX_SIZE

TruncateFaults ==
  {"metadata", "open", "seek", "read", "create", "write_msg", "write_data"}

\* the bytes the write named by fault is asked to write, 0 for other faults
TruncateWriteLen(f, fault) ==
  IF ~f.exists \/ SmallEnough(FileSize(f)) THEN 0
  ELSE LET last_bytes == ReadFrom(f.data, SeekPos(FileSize(f))) IN
    IF fault = "write_msg"
    THEN SumLen(Banner(FileSize(f), DataLen(last_bytes)))
    ELSE IF fault = "write_data" THEN DataLen(last_bytes) ELSE 0

\* truncate_log_file(log_path) on file f with the injected failure fault;
\* a failing write had accepted the first `accepted` bytes
truncate_log_file(f, fault, accepted) ==
  IF ~f.exists \/ fault = "metadata" THEN [res |-> "Ok", file |-> f]
  ELSE LET file_size == FileSize(f) IN
    IF SmallEnough(file_size) THEN [res |-> "Ok", file |-> f]
    ELSE IF fault \in {"open", "seek", "read", "create"} THEN [res |-> "Err", file |-> f]
    ELSE LET last_bytes == ReadFrom(f.data, SeekPos(file_size))
             message == <<TxtChunk(Banner(file_size, DataLen(last_bytes)))>>
             a1 == IF fault = "write_msg" THEN accepted ELSE DataLen(message)
             a2 == IF fault = "write_data" THEN accepted ELSE DataLen(last_bytes)
             afterMsg == WriteAll(<<>>, message, a1)
         IN  IF ~WriteOk(message, a1)
             THEN [res |-> "Err", file |-> [exists |-> TRUE, data |-> afterMsg]]
             ELSE [res |-> IF WriteOk(last_bytes, a2) THEN "Ok" ELSE "Err",
                   file |-> [exists |-> TRUE,
                             data |-> WriteAll(afterMsg, last_bytes, a2)]]

\* ---------------------------------------------------------------- secret
\* mutant: the range of the draws is inclusive, 0..=32
generate_secret_Inclusive(rnd) ==
  [i \in 1..(SecretLen + 1) |-> CHARSET[rnd[((i - 1) % SecretLen) + 1] + 1]]

\* generate_secret(): 32 draws idx, each mapped to CHARSET[idx] (0-based)
generate_secret(rnd) == [i \in 1..SecretLen |-> CHARSET[rnd[i] + 1]]

\* ---------------------------------------------------------------- events
None == <<>>
Some(x) == <<x>>
Event(kind, data, code, signal) ==
  [kind |-> kind, data |-> data, code |-> code, signal |-> signal]

\* what the sidecar may emit while it runs; "Other" stands for any further
\* CommandEvent variant
Emittable ==
  { Event("Stdout", <<97, LF>>, None, None),
    Event("Stderr", <<98, 195, 169, 226, 130, 255, CR, LF>>, None, None),
    Event("Error", <<101, LF>>, None, None),
    Event("Other", <<>>, None, None) }
Terminations ==
  { Event("Terminated", <<>>, Some(0), None),
    Event("Terminated", <<>>, None, Some(9)) }

\* the printable ASCII characters, from the space (32) to the tilde (126);
\* the grave accent (96) is written by its code point
Printable ==
  <<
     " ", "!", "\"", "#", "$", "%", "&", "'", "(", ")", "*", "+",
     ",", "-", ".", "/", "0", "1", "2", "3", "4", "5", "6", "7",
     "8", "9", ":", ";", "<", "=", ">", "?", "@", "A", "B", "C",
     "D", "E", "F", "G", "H", "I", "J", "K", "L", "M", "N", "O",
     "P", "Q", "R", "S", "T", "U", "V", "W", "X", "Y", "Z", "[",
     "\\", "]", "^", "_", "U+1:96", "a", "b", "c", "d", "e",
     "f", "g",
     "h", "i", "j", "k", "l", "m", "n", "o", "p", "q", "r", "s",
     "t", "u", "v", "w", "x", "y", "z", "{", "|", "}", "~"
  >>

\* bytes of UTF-8 a character with code point c takes
Utf8Len(c) == IF c < 128 THEN 1 ELSE IF c < 2048 THEN 2 ELSE IF c < 65536 THEN 3 ELSE 4

\* the text token of the character with code point c
Char(c) ==
  IF c = LF THEN "\n"
  ELSE IF c = CR THEN "\r"
  ELSE IF c >= 32 /\ c <= 126 THEN Printable[c - 31]
  ELSE "U+" \o ToString(Utf8Len(c)) \o ":" \o ToString(c)

\* U+FFFD, which from_utf8_lossy puts for an invalid sequence
Replacement == Char(65533)

AsciiChar(b) == Char(b)

\* b is a continuation byte within lo..hi
InRange(bytes, i, lo, hi) == i <= Len(bytes) /\ bytes[i] >= lo /\ bytes[i] <= hi

\* the range the second byte of a sequence must be in, by its first byte
SecondLo(b) == IF b = 224 THEN 160 ELSE IF b = 240 THEN 144 ELSE 128
SecondHi(b) == IF b = 237 THEN 159 ELSE IF b = 244 THEN 143 ELSE 191

\* bytes the sequence starting with the byte b should have, 0 for a byte
\* that starts none
SeqLen(b) ==
  IF b < 128 THEN 1
  ELSE IF b >= 194 /\ b <= 223 THEN 2
  ELSE IF b >= 224 /\ b <= 239 THEN 3
  ELSE IF b >= 240 /\ b <= 244 THEN 4
  ELSE 0

\* the bytes of the sequence at i that are well formed, up to SeqLen
ValidLen(bytes, i) ==
  LET b == bytes[i]
      n == SeqLen(b)
  IN  IF n <= 1 THEN 1
      ELSE IF ~InRange(bytes, i + 1, SecondLo(b), SecondHi(b)) THEN 1
      ELSE IF n = 2 THEN 2
      ELSE IF ~InRange(bytes, i + 2, 128, 191) THEN 2
      ELSE IF n = 3 THEN 3
      ELSE IF ~InRange(bytes, i + 3, 128, 191) THEN 3
      ELSE 4

\* the code point of the well-formed sequence of n bytes at i
CodePoint(bytes, i, n) ==
  IF n = 1 THEN bytes[i]
  ELSE IF n = 2 THEN (bytes[i] - 192) * 64 + (bytes[i + 1] - 128)
  ELSE IF n = 3
  THEN (bytes[i] - 224) * 4096 + (bytes[i + 1] - 128) * 64 + (bytes[i + 2] - 128)
  ELSE (bytes[i] - 240) * 262144 + (bytes[i + 1] - 128) * 4096
         + (bytes[i + 2] - 128) * 64 + (bytes[i + 3] - 128)

\* String::from_utf8_lossy: DecodeFrom[i] is the characters of bytes from
\* position i on; a well-formed sequence gives its character, a maximal
\* ill-formed one gives one U+FFFD
from_utf8_lossy(bytes) ==
  LET DecodeFrom[i \in 1..(Len(bytes) + 1)] ==
        IF i > Len(bytes) THEN <<>>
        ELSE LET n == SeqLen(bytes[i])
                 v == ValidLen(bytes, i)
             IN  IF n >= 1 /\ v = n
                 THEN <<Char(CodePoint(bytes, i, n))>> \o DecodeFrom[i + v]
                 ELSE <<Replacement>> \o DecodeFrom[i + v]
  IN  DecodeFrom[1]

\* how many characters of text are left when the ch's at its end are removed
KeptLen(text, ch) ==
  LET Kept[k \in 0..Len(text)] == IF k > 0 /\ text[k] = ch THEN Kept[k - 1] ELSE k
  IN  Kept[Len(text)]

\* str::trim_end_matches(ch): text without the ch's at its end
trim_end_matches(text, ch) ==
  LET Trimmed[t \in {text}] == SubSeq(t, 1, KeptLen(t, ch))
  IN  Trimmed[text]

\* {:?} of an Option<i32>
DebugOption(o) == IF o = None THEN "None" ELSE "Some(" \o ToString(o[1]) \o ")"

\* the match of the event loop: the line for an event, <<>> for `continue`
FormatEvent(event) ==
  CASE event.kind = "Stdout" ->
         <<"[stdout] ">>
           \o trim_end_matches(trim_end_matches(from_utf8_lossy(event.data), "\n"), "\r")
           \o <<"\n">>
    [] event.kind = "Stderr" ->
         <<"[stderr] ">>
           \o trim_end_matches(trim_end_matches(from_utf8_lossy(event.data), "\n"), "\r")
           \o <<"\n">>
    [] event.kind = "Error" -> <<"[error] ">> \o from_utf8_lossy(event.data) \o <<"\n">>
    [] event.kind = "Terminated" ->
         << "[terminated] ", "code: ", DebugOption(event.code),
            ", signal: ", DebugOption(event.signal), "\n" >>
    [] OTHER -> <<>>

Separator == <<"\n\n=== Server started at ", Timestamp, " ===\n">>
\* the separator as the buffer of its write_all
SeparatorBuf == <<TxtChunk(Separator)>>

\* FormatEvent as a table over the events the sidecar can send
LineOf == [e \in Emittable \cup Terminations |-> FormatEvent(e)]


\* ----------------------------------------------------------------- state
VARIABLES
  pc,            \* where run() is: start, setup, started, tray, running,
                 \* exitRequested, exited, panicked
  debug,         \* cfg(debug_assertions): the build this run is
  port,          \* run's local port
  ssh_port,      \* run's local ssh_port
  secret,        \* run's local secret
  state,         \* the managed Mutex<ServerState>
  startResult,   \* what start_server returned: none, Ok, Err
  logFile,       \* server.log
  child,         \* the sidecar process: status, env, kill requested
  spawnCount,    \* successful sidecar.spawn() calls
  setCount,      \* assignments of Some(child) to state.process
  killRequests,  \* child.kill() calls
  chan,          \* events sent on the sidecar's channel, not yet received
  chanClosed,    \* the sidecar's senders are gone
  consumed,      \* events the task has received, in order
  task,          \* the output task: none, open, sep, loop, done
  faults,        \* failures injected so far
  logAtStart,    \* server.log as found on disk at startup
  startFault,    \* the failure injected into start_server
  emitted,       \* every event the sidecar has sent, in order
  startOps,      \* the steps start_server went through, in order
  window         \* the main window: visible, hidden

vars ==
  << pc, debug, port, ssh_port, secret, state, startResult, logFile, child,
     spawnCount, setCount, killRequests, chan, chanClosed, consumed, task,
     faults, logAtStart, startFault, emitted, startOps, window >>

NoEnv == [PORT |-> "", SSH_PORT |-> "", DISCOBOT_SECRET |-> <<>>]

InitialLogs ==
  {NoFile} \cup { [exists |-> TRUE, data |-> IF n = 0 THEN <<>> ELSE <<OldChunk(0, n)>>] :
                  n \in LogSizes }

Init ==
  /\ pc = "start"
  /\ debug \in BOOLEAN
  /\ port = 0
  /\ ssh_port = 0
  /\ secret = <<>>
  /\ state = [port |-> 0, secret |-> <<>>, process |-> NoChild]
  /\ startResult = "none"
  /\ logFile \in InitialLogs
  /\ child = [status |-> "none", env |-> NoEnv, killed |-> FALSE]
  /\ spawnCount = 0
  /\ setCount = 0
  /\ killRequests = 0
  /\ chan = <<>>
  /\ chanClosed = FALSE
  /\ consumed = <<>>
  /\ task = "none"
  /\ faults = 0
  /\ logAtStart = logFile
  /\ startOps = <<>>
  /\ window = "visible"
  /\ startFault = "none"
  /\ emitted = <<>>

CanFail == faults < MaxFaults
AppAlive == pc \notin {"start", "exited", "panicked"}

\* ------------------------------------------------------------------ run
\* ServerState { port, secret: secret.clone(), process: None }
NewServerState(p, s) == [port |-> p, secret |-> s, process |-> NoChild]

\* run(), up to .manage(...): ports and secret are chosen, the state is built
RunManage ==
  /\ pc = "start"
  /\ \E h \in Hosts :
       /\ port' = IF debug THEN DevPort ELSE h.port
       /\ ssh_port' = IF debug \/ h.ssh_free THEN DefaultSshPort ELSE h.port2
       /\ secret' = generate_secret(h.rnd)
       /\ state' = NewServerState(port', secret')
  /\ pc' = "setup"
  /\ UNCHANGED << startOps, window,
                  logAtStart, startFault, emitted, debug, startResult,
                  logFile, child, spawnCount, setCount, killRequests, chan,
                  chanClosed, consumed, task, faults >>

\* find_available_port(): the bind or local_addr fails and expect() panics
RunPortPanic ==
  /\ pc = "start"
  /\ ~debug
  /\ CanFail
  /\ faults' = faults + 1
  /\ pc' = "panicked"
  /\ UNCHANGED << startOps, window,
                  logAtStart, startFault, emitted, debug, port, ssh_port,
                  secret, state, startResult, logFile, child, spawnCount,
                  setCount, killRequests, chan, chanClosed, consumed, task >>

\* mutant: the two ports are given to the sidecar the wrong way round
SidecarEnv_Swapped(p, sp, s) ==
  [PORT |-> ToString(sp), SSH_PORT |-> ToString(p), DISCOBOT_SECRET |-> s]

\* the environment start_server gives the sidecar
SidecarEnv(p, sp, s) ==
  [PORT |-> ToString(p), SSH_PORT |-> ToString(sp), DISCOBOT_SECRET |-> s]

StartFaults == PathFaults \cup TruncateFaults \cup {"sidecar", "spawn"}

\* what a failing write of the compaction may have accepted
StartWrites(f, fault) ==
  IF TruncateWriteLen(f, fault) > 0
  THEN FailedWrites(TruncateWriteLen(f, fault)) ELSE {0}

\* mutant: the sidecar is spawned and its task started before the log is
\* compacted
start_server_SpawnFirst(f, fault, accepted) ==
  LET t == truncate_log_file(f, fault, accepted) IN
  IF fault = "none"
  THEN [res |-> "Ok", file |-> t.file, spawned |-> TRUE,
        ops |-> <<"get_log_file_path", "sidecar", "spawn", "task",
                  "truncate_log_file">>]
  ELSE [res |-> "Err", file |-> f, spawned |-> FALSE,
        ops |-> <<"get_log_file_path">>]

\* start_server(app, port, ssh_port, secret) with the injected failure fault:
\* the result, the log file it leaves and whether the sidecar was spawned
start_server(f, fault, accepted) ==
  IF get_log_file_path(fault) = "Err"
  THEN [res |-> "Err", file |-> f, spawned |-> FALSE,
        ops |-> <<"get_log_file_path">>]
  ELSE LET t == truncate_log_file(f, fault, accepted) IN
    IF t.res = "Err"
    THEN [res |-> "Err", file |-> t.file, spawned |-> FALSE,
          ops |-> <<"get_log_file_path", "truncate_log_file">>]
    ELSE IF fault = "sidecar"
    THEN [res |-> "Err", file |-> t.file, spawned |-> FALSE,
          ops |-> <<"get_log_file_path", "truncate_log_file", "sidecar">>]
    ELSE IF fault = "spawn"
    THEN [res |-> "Err", file |-> t.file, spawned |-> FALSE,
          ops |-> <<"get_log_file_path", "truncate_log_file", "sidecar",
                    "spawn">>]
    ELSE [res |-> "Ok", file |-> t.file, spawned |-> TRUE,
          ops |-> <<"get_log_file_path", "truncate_log_file", "sidecar",
                    "spawn", "task">>]

\* setup, release build: the call of start_server
SetupStartServer ==
  /\ pc = "setup"
  /\ ~debug
  /\ \E fault \in {"none"} \cup (IF CanFail THEN StartFaults ELSE {}) :
     \E accepted \in StartWrites(logFile, fault) :
       LET r == start_server(logFile, fault, accepted) IN
         /\ startResult' = r.res
         /\ startFault' = fault
         /\ startOps' = r.ops
         /\ logFile' = r.file
         /\ faults' = IF fault = "none" THEN faults ELSE faults + 1
         /\ IF r.spawned
            THEN /\ spawnCount' = spawnCount + 1
                 /\ child' = [status |-> "running",
                              env |-> SidecarEnv(port, ssh_port, secret),
                              killed |-> FALSE]
                 /\ task' = "open"
            ELSE UNCHANGED << spawnCount, child, task >>
  /\ pc' = "started"
  /\ UNCHANGED << window,
                  logAtStart, emitted, debug, port, ssh_port, secret, state,
                  setCount, killRequests, chan, chanClosed, consumed >>

\* mutant: a failed start aborts the setup
SetupStore_Abort ==
  /\ pc = "started"
  /\ IF startResult = "Ok"
     THEN /\ state' = [state EXCEPT !.process = spawnCount]
          /\ setCount' = setCount + 1
          /\ pc' = "tray"
     ELSE /\ pc' = "panicked"
          /\ UNCHANGED << state, setCount >>
  /\ UNCHANGED << startOps, window,
                  logAtStart, startFault, emitted, debug, port, ssh_port,
                  secret, startResult, logFile, child, spawnCount,
                  killRequests, chan, chanClosed, consumed, task, faults >>

\* setup, release build: the match on start_server's result
SetupStore ==
  /\ pc = "started"
  /\ IF startResult = "Ok"
     THEN /\ state' = [state EXCEPT !.process = spawnCount]
          /\ setCount' = setCount + 1
     ELSE UNCHANGED << state, setCount >>
  /\ pc' = "tray"
  /\ UNCHANGED << startOps, window,
                  logAtStart, startFault, emitted, debug, port, ssh_port,
                  secret, startResult, logFile, child, spawnCount,
                  killRequests, chan, chanClosed, consumed, task, faults >>

\* setup, debug build: the sidecar is skipped
SetupDev ==
  /\ pc = "setup"
  /\ debug
  /\ pc' = "tray"
  /\ UNCHANGED << startOps, window,
                  logAtStart, startFault, emitted, debug, port, ssh_port,
                  secret, state, startResult, logFile, child, spawnCount,
                  setCount, killRequests, chan, chanClosed, consumed, task,
                  faults >>

\* setup: menu items, menu and tray icon are built
SetupTray ==
  /\ pc = "tray"
  /\ pc' = "running"
  /\ UNCHANGED << startOps, window,
                  logAtStart, startFault, emitted, debug, port, ssh_port,
                  secret, state, startResult, logFile, child, spawnCount,
                  setCount, killRequests, chan, chanClosed, consumed, task,
                  faults >>

\* setup: one of the `?` of the tray construction fails, run()'s expect panics
SetupTrayFails ==
  /\ pc = "tray"
  /\ CanFail
  /\ faults' = faults + 1
  /\ pc' = "panicked"
  /\ UNCHANGED << startOps, window,
                  logAtStart, startFault, emitted, debug, port, ssh_port,
                  secret, state, startResult, logFile, child, spawnCount,
                  setCount, killRequests, chan, chanClosed, consumed, task >>

\* -------------------------------------------------------------- queries
get_server_port(st) == st.port
get_server_secret(st) == st.secret

QueryPort ==
  /\ AppAlive
  /\ get_server_port(state) \in 0..65535
  /\ UNCHANGED vars

QuerySecret ==
  /\ AppAlive
  /\ Len(get_server_secret(state)) >= 0
  /\ UNCHANGED vars

\* ----------------------------------------------------------------- quit
\* mutant: the handle is killed through a reference and stays in the state
Shutdown_NoTake(st) ==
  [state |-> st, kills |-> IF st.process # NoChild THEN 1 ELSE 0]

\* mutant: shutdown replaces the whole state by an empty one
Shutdown_Reset(st) ==
  [state |-> [port |-> 0, secret |-> <<>>, process |-> NoChild],
   kills |-> IF st.process # NoChild THEN 1 ELSE 0]

\* state.process.take() and, for Some(child), child.kill(): the state left
\* and the kill requests issued
Shutdown(st) ==
  [state |-> [st EXCEPT !.process = NoChild],
   kills |-> IF st.process # NoChild THEN 1 ELSE 0]

\* the steps of state.lock().unwrap().process = Some(child) and the println
\* after it: the guard is a temporary of the assignment statement
StoreOps == <<"lock", "set", "unlock", "println">>

\* the steps of get_server_port / get_server_secret: the guard is a
\* temporary of the returned expression
QueryOps == <<"lock", "read", "unlock">>

\* the steps that are I/O or calls to the operating system
IoOps ==
  {"get_log_file_path", "truncate_log_file", "sidecar", "spawn", "task",
   "println", "kill", "exit"}

\* mutant: the exit is requested first, the child is killed afterwards
QuitOps_ExitFirst(st) ==
  <<"exit", "lock", "take">>
    \o (IF st.process # NoChild THEN <<"kill">> ELSE <<>>) \o <<"unlock">>

\* the steps of the "quit" arm on the state st, in program order: the guard
\* of state.lock() lives to the end of the if-let block around take and kill
QuitOps(st) ==
  <<"lock", "take">> \o (IF st.process # NoChild THEN <<"kill">> ELSE <<>>)
    \o <<"unlock", "exit">>

\* the "quit" arm of on_menu_event
Quit ==
  /\ pc \in {"running", "exitRequested"}
  /\ LET r == Shutdown(state) IN
       /\ state' = r.state
       /\ killRequests' = killRequests + r.kills
       /\ child' = IF r.kills > 0 THEN [child EXCEPT !.killed = TRUE] ELSE child
  /\ pc' = IF \E i \in DOMAIN QuitOps(state) : QuitOps(state)[i] = "exit"
           THEN "exitRequested" ELSE pc
  /\ UNCHANGED << startOps, window,
                  logAtStart, startFault, emitted, debug, port, ssh_port,
                  secret, startResult, logFile, spawnCount, setCount, chan,
                  chanClosed, consumed, task, faults >>

\* the event loop acts on the exit request of app.exit(0)
AppExit ==
  /\ pc = "exitRequested"
  /\ pc' = "exited"
  /\ UNCHANGED << startOps, window,
                  logAtStart, startFault, emitted, debug, port, ssh_port,
                  secret, state, startResult, logFile, child, spawnCount,
                  setCount, killRequests, chan, chanClosed, consumed, task,
                  faults >>

\* --------------------------------------------------------------- window
\* what the window system answers to a handler: whether
\* get_webview_window("main") finds the window, whether show() or hide()
\* succeeds, whether is_visible() succeeds, whether the window is focused
WindowAnswers == [found : BOOLEAN, done : BOOLEAN, seen : BOOLEAN, focused : BOOLEAN]

\* show_window: show, unminimize and focus the main window if there is
\* one; the results of the calls are dropped
show_window(w, ans) == IF ans.found /\ ans.done THEN "visible" ELSE w

\* hide_window: hide the main window if there is one; the result is dropped
hide_window(w, ans) == IF ans.found /\ ans.done THEN "hidden" ELSE w

\* toggle_window: hide a visible and focused window, show any other;
\* is_visible() and is_focused() count as false when they fail
toggle_window(w, ans) ==
  IF ~ans.found THEN w
  ELSE LET is_visible == ans.seen /\ w = "visible"
           is_focused == ans.focused
       IN  IF is_visible /\ is_focused THEN hide_window(w, ans)
           ELSE show_window(w, ans)

\* mutant: the close is not prevented, the last window closes and the
\* application exits
CloseRequested_Closes ==
  /\ pc \in {"running", "exitRequested"}
  /\ window' \in {hide_window(window, ans) : ans \in WindowAnswers}
  /\ pc' = "exited"
  /\ UNCHANGED << startOps,
                  logAtStart, startFault, emitted, debug, port, ssh_port,
                  secret, state, startResult, logFile, child, spawnCount,
                  setCount, killRequests, chan, chanClosed, consumed, task,
                  faults >>

\* on_window_event, CloseRequested: hide the window and prevent the close
CloseRequested ==
  /\ pc \in {"running", "exitRequested"}
  /\ window' \in {hide_window(window, ans) : ans \in WindowAnswers}
  /\ UNCHANGED << startOps, pc,
                  logAtStart, startFault, emitted, debug, port, ssh_port,
                  secret, state, startResult, logFile, child, spawnCount,
                  setCount, killRequests, chan, chanClosed, consumed, task,
                  faults >>

\* the "show" arm of on_menu_event
MenuShow ==
  /\ pc \in {"running", "exitRequested"}
  /\ window' \in {show_window(window, ans) : ans \in WindowAnswers}
  /\ UNCHANGED << startOps, pc,
                  logAtStart, startFault, emitted, debug, port, ssh_port,
                  secret, state, startResult, logFile, child, spawnCount,
                  setCount, killRequests, chan, chanClosed, consumed, task,
                  faults >>

\* on_tray_icon_event, left button released: toggle_window
TrayClick ==
  /\ pc \in {"running", "exitRequested"}
  /\ window' \in {toggle_window(window, ans) : ans \in WindowAnswers}
  /\ UNCHANGED << startOps, pc,
                  logAtStart, startFault, emitted, debug, port, ssh_port,
                  secret, state, startResult, logFile, child, spawnCount,
                  setCount, killRequests, chan, chanClosed, consumed, task,
                  faults >>

\* -------------------------------------------------------------- sidecar
ChildEmit ==
  /\ AppAlive
  /\ child.status = "running"
  /\ Len(emitted) < MaxEvents
  /\ \E e \in Emittable :
       /\ chan' = Append(chan, e)
       /\ emitted' = Append(emitted, e)
  /\ UNCHANGED << startOps, window,
                  logAtStart, startFault, pc, debug, port, ssh_port, secret,
                  state, startResult, logFile, child, spawnCount, setCount,
                  killRequests, chanClosed, consumed, task, faults >>

\* mutant: the exit of the sidecar also empties the handle in the state
ChildTerminate_ClearsHandle ==
  /\ AppAlive
  /\ child.status = "running"
  /\ \E e \in Terminations :
       /\ chan' = Append(chan, e)
       /\ emitted' = Append(emitted, e)
  /\ chanClosed' = TRUE
  /\ child' = [child EXCEPT !.status = "exited"]
  /\ state' = [state EXCEPT !.process = NoChild]
  /\ UNCHANGED << startOps, window,
                  logAtStart, startFault, pc, debug, port, ssh_port, secret,
                  startResult, logFile, spawnCount, setCount,
                  killRequests, consumed, task, faults >>

\* the sidecar exits, by itself or killed: Terminated is sent, the channel closes
ChildTerminate ==
  /\ AppAlive
  /\ child.status = "running"
  /\ \E e \in Terminations :
       /\ chan' = Append(chan, e)
       /\ emitted' = Append(emitted, e)
  /\ chanClosed' = TRUE
  /\ child' = [child EXCEPT !.status = "exited"]
  /\ UNCHANGED << startOps, window,
                  logAtStart, startFault, pc, debug, port, ssh_port, secret,
                  state, startResult, logFile, spawnCount, setCount,
                  killRequests, consumed, task, faults >>

\* ---------------------------------------------------------- output task
\* mutant: the task opens the log with truncation instead of append
TaskOpen_Truncating ==
  /\ AppAlive
  /\ task = "open"
  /\ logFile' = [exists |-> TRUE, data |-> <<>>]
  /\ task' = "sep"
  /\ UNCHANGED << startOps, window,
                  logAtStart, startFault, emitted, pc, debug, port, ssh_port,
                  secret, state, startResult, child, spawnCount, setCount,
                  killRequests, chan, chanClosed, consumed, faults >>

\* OpenOptions::new().create(true).append(true).open(&log_path) succeeds:
\* the file exists from now on, with what it held
TaskOpen ==
  /\ AppAlive
  /\ task = "open"
  /\ logFile' = [exists |-> TRUE, data |-> logFile.data]
  /\ task' = "sep"
  /\ UNCHANGED << startOps, window,
                  logAtStart, startFault, emitted, pc, debug, port, ssh_port,
                  secret, state, startResult, child, spawnCount, setCount,
                  killRequests, chan, chanClosed, consumed, faults >>

\* file.write_all(separator.as_bytes()): an error is reported and the task
\* goes on to the loop
TaskSeparator ==
  /\ AppAlive
  /\ task = "sep"
  /\ \E w \in WriteOutcomes(SeparatorBuf, CanFail) :
       /\ logFile' = [logFile EXCEPT !.data = WriteAll(@, SeparatorBuf, w)]
       /\ faults' = IF WriteOk(SeparatorBuf, w) THEN faults ELSE faults + 1
  /\ task' = "loop"
  /\ UNCHANGED << startOps, window,
                  logAtStart, startFault, emitted, pc, debug, port, ssh_port,
                  secret, state, startResult, child, spawnCount, setCount,
                  killRequests, chan, chanClosed, consumed >>

\* OpenOptions::open fails: the task reports it and returns
TaskOpenFails ==
  /\ AppAlive
  /\ task = "open"
  /\ CanFail
  /\ faults' = faults + 1
  /\ task' = "done"
  /\ UNCHANGED << startOps, window,
                  logAtStart, startFault, emitted, pc, debug, port, ssh_port,
                  secret, state, startResult, logFile, child, spawnCount,
                  setCount, killRequests, chan, chanClosed, consumed >>

\* mutant: the task takes the newest event of the channel first
TaskRecv_Newest ==
  /\ AppAlive
  /\ task = "loop"
  /\ chan # <<>>
  /\ LET event == chan[Len(chan)]
         output == FormatEvent(event)
     IN  /\ chan' = SubSeq(chan, 1, Len(chan) - 1)
         /\ consumed' = Append(consumed, event)
         /\ IF output = <<>>
            THEN UNCHANGED << logFile, faults >>
            ELSE \E w \in WriteOutcomes(<<TxtChunk(output)>>, CanFail) :
                   /\ logFile' = [logFile EXCEPT
                                    !.data = WriteAll(@, <<TxtChunk(output)>>, w)]
                   /\ faults' = IF WriteOk(<<TxtChunk(output)>>, w) THEN faults
                                ELSE faults + 1
  /\ UNCHANGED << startOps, window,
                  logAtStart, startFault, emitted, pc, debug, port, ssh_port,
                  secret, state, startResult, child, spawnCount, setCount,
                  killRequests, chanClosed, task >>

\* one turn of `while let Some(event) = rx.recv().await`
TaskRecv ==
  /\ AppAlive
  /\ task = "loop"
  /\ chan # <<>>
  \* rx.recv(), then let output = match event: LineOf[event] is
  \* FormatEvent(event)
  /\ \E event \in {Head(chan)} :
       /\ chan' = Tail(chan)
       /\ consumed' = Append(consumed, event)
       /\ \E output \in {LineOf[event]} :
            IF output = <<>>
            THEN UNCHANGED << logFile, faults >>
            ELSE \E buf \in {<<TxtChunk(output)>>} :
                   \E w \in WriteOutcomes(buf, CanFail) :
                     /\ logFile' = [logFile EXCEPT !.data = WriteAll(@, buf, w)]
                     /\ faults' = IF WriteOk(buf, w) THEN faults ELSE faults + 1
  /\ UNCHANGED << startOps, window,
                  logAtStart, startFault, emitted, pc, debug, port, ssh_port,
                  secret, state, startResult, child, spawnCount, setCount,
                  killRequests, chanClosed, task >>

\* mutant: when the channel closes the sidecar is started again
TaskEnd_Respawn ==
  /\ AppAlive
  /\ task = "loop"
  /\ chan = <<>>
  /\ chanClosed
  /\ task' = "loop"
  /\ chanClosed' = FALSE
  /\ spawnCount' = spawnCount + 1
  /\ child' = [child EXCEPT !.status = "running", !.killed = FALSE]
  /\ UNCHANGED << startOps, window,
                  logAtStart, startFault, emitted, pc, debug, port, ssh_port,
                  secret, state, startResult, logFile, setCount, killRequests,
                  chan, consumed, faults >>

\* mutant: on a closed and empty channel the task polls again
TaskEnd_Spins ==
  /\ AppAlive
  /\ task = "loop"
  /\ chan = <<>>
  /\ chanClosed
  /\ task' = "loop"
  /\ UNCHANGED << startOps, window,
                  logAtStart, startFault, emitted, pc, debug, port, ssh_port,
                  secret, state, startResult, logFile, child, spawnCount,
                  setCount, killRequests, chan, chanClosed, consumed,
                  faults >>

\* rx.recv() returns None: the channel is closed and empty
TaskEnd ==
  /\ AppAlive
  /\ task = "loop"
  /\ chan = <<>>
  /\ chanClosed
  /\ task' = "done"
  /\ UNCHANGED << startOps, window,
                  logAtStart, startFault, emitted, pc, debug, port, ssh_port,
                  secret, state, startResult, logFile, child, spawnCount,
                  setCount, killRequests, chan, chanClosed, consumed,
                  faults >>

Next ==
  \/ RunManage \/ RunPortPanic
  \/ SetupStartServer \/ SetupStore \/ SetupDev \/ SetupTray \/ SetupTrayFails
  \/ QueryPort \/ QuerySecret
  \/ Quit \/ AppExit
  \/ ChildEmit \/ ChildTerminate
  \/ TaskOpen \/ TaskOpenFails \/ TaskSeparator \/ TaskRecv \/ TaskEnd

Spec == Init /\ [][Next]_vars

\* the async runtime keeps running a task that can take a step
FairSpec ==
  /\ Spec
  /\ WF_vars(TaskOpen)
  /\ WF_vars(TaskSeparator)
  /\ WF_vars(TaskRecv)
  /\ WF_vars(TaskEnd)

\* outcomes of the 32 draws of generate_secret: every pair of indices of
\* CHARSET, alternating
RngStreams ==
  { [i \in 1..SecretLen |-> IF i % 2 = 1 THEN a ELSE b] :
    a \in 0..(Len(CHARSET) - 1), b \in 0..(Len(CHARSET) - 1) }

\* run() up to .manage(), the secret drawn from RngStreams
RunManageSecret ==
  /\ pc = "start"
  /\ \E h \in Hosts, r \in RngStreams :
       /\ port' = IF debug THEN DevPort ELSE h.port
       /\ ssh_port' = IF debug \/ h.ssh_free THEN DefaultSshPort ELSE h.port2
       /\ secret' = generate_secret(r)
       /\ state' = NewServerState(port', secret')
  /\ pc' = "setup"
  /\ UNCHANGED << startOps, window,
                  logAtStart, startFault, emitted, debug, startResult,
                  logFile, child, spawnCount, setCount, killRequests, chan,
                  chanClosed, consumed, task, faults >>

\* the generation of the secret and its queries
SecretNext == RunManageSecret \/ QuerySecret

SecretSpec == Init /\ [][SecretNext]_vars

\* the supervisor together with the window and tray handlers
WindowNext == CloseRequested \/ MenuShow \/ TrayClick

WindowSpec == Init /\ [][Next \/ WindowNext]_vars

\* ---------------------------------------------------------------- claims
Min(a, b) == IF a < b THEN a ELSE b
Max(a, b) == IF a > b THEN a ELSE b

\* the sidecar has exited, or shutdown ran after it was spawned
Terminated ==
  spawnCount > 0 /\ (child.status = "exited" \/ pc \in {"exitRequested", "exited"})

\* C1: the sidecar is spawned at most once and the handle is stored at most
\* once; after a failed start the handle stays None; once the sidecar has
\* terminated no step spawns it or makes it run again.
C1_SpawnedAtMostOnce ==
  /\ [](/\ spawnCount <= 1
        /\ setCount <= spawnCount
        /\ (startResult = "Err" =>
              state.process = NoChild /\ spawnCount = 0 /\ child.status = "none"))
  /\ [][Terminated =>
          /\ Terminated'
          /\ spawnCount' = spawnCount
          /\ (child'.status = "running" => child.status = "running")]_vars
  /\ [][setCount = 1 => setCount' = 1]_vars

C1_Witness ==
  /\ pc = "exited"
  /\ spawnCount = 1
  /\ setCount = 1
  /\ child.status = "exited"
  /\ state.process = NoChild

\* C2: shutdown is idempotent: applied to the state a first shutdown leaves,
\* it changes nothing and issues no kill; on a state without handle it is a
\* no-op; a second quit in a row changes neither state, kill requests nor
\* the sidecar.
C2_ShutdownIdempotent ==
  /\ [](LET once == Shutdown(state)
            twice == Shutdown(once.state)
        IN  /\ twice.state = once.state
            /\ twice.kills = 0
            /\ once.state.process = NoChild
            /\ (state.process = NoChild => once.state = state /\ once.kills = 0))
  /\ [][Quit =>
          /\ state'.process = NoChild
          /\ state.process = NoChild =>
                state' = state /\ killRequests' = killRequests /\ child' = child]_vars

\* a first quit has killed the sidecar and a second quit can be handled
C2_Witness ==
  /\ pc = "exitRequested"
  /\ killRequests = 1
  /\ child.killed
  /\ state.process = NoChild
  /\ ENABLED Quit

\* C3: after a failed start the setup goes on to the tray, the two queries
\* answer what the state was created with, no handle is stored and a
\* shutdown changes nothing and kills nothing.
C3_SpawnFailureIsNotFatal ==
  /\ [](startResult = "Err" =>
          /\ get_server_port(state) = port
          /\ get_server_secret(state) = secret
          /\ Len(get_server_secret(state)) = SecretLen
          /\ state.process = NoChild
          /\ setCount = 0
          /\ killRequests = 0
          /\ Shutdown(state) = [state |-> state, kills |-> 0])
  /\ [][pc = "started" /\ startResult = "Err" => pc' \in {"started", "tray"}]_vars
  /\ [][pc = "setup" =>
          /\ get_server_port(state') = get_server_port(state)
          /\ get_server_secret(state') = get_server_secret(state)]_vars

\* the start failed at the spawn, the application ran and a quit was handled
C3_Witness ==
  /\ startFault = "spawn"
  /\ startResult = "Err"
  /\ pc = "exitRequested"
  /\ killRequests = 0
  /\ get_server_port(state) = 65535

\* run() has built the state
Managed == secret # <<>>

\* C4: once the state is created, its port and secret are those it was
\* created with, whatever happened since, and no step changes them.
C4_PortSecretImmutable ==
  /\ [](Managed =>
          /\ get_server_port(state) = port
          /\ get_server_secret(state) = secret
          /\ port # 0
          /\ Len(secret) = SecretLen)
  /\ [][Managed =>
          /\ state'.port = state.port
          /\ state'.secret = state.secret
          /\ port' = port
          /\ secret' = secret]_vars

\* the sidecar ran, wrote output, was killed by quit and the application left
C4_Witness ==
  /\ pc = "exited"
  /\ killRequests = 1
  /\ consumed # <<>>
  /\ state.process = NoChild
  /\ state.port = 49152

\* C5: a spawned sidecar has in PORT the decimal form of the port the
\* front-end is told and in DISCOBOT_SECRET the secret it is told.
C5_SameCredentials ==
  spawnCount > 0 =>
    /\ child.env.PORT = ToString(get_server_port(state))
    /\ child.env.DISCOBOT_SECRET = get_server_secret(state)
    /\ child.env.SSH_PORT = ToString(ssh_port)

C5_Witness ==
  /\ child.status = "running"
  /\ child.env.PORT = "65535"
  /\ get_server_port(state) = 65535
  /\ child.env.SSH_PORT # ToString(DefaultSshPort)
  /\ pc = "running"

\* ------------------------------------------------------ log lines of a run
TagOf(kind) ==
  CASE kind = "Stdout" -> "[stdout] "
    [] kind = "Stderr" -> "[stderr] "
    [] kind = "Error" -> "[error] "
    [] kind = "Terminated" -> "[terminated] "
    [] OTHER -> ""
LoggedKinds == {"Stdout", "Stderr", "Error", "Terminated"}
Tags == {TagOf(k) : k \in LoggedKinds}

IsEventChunk(c) == c.k = "txt" /\ c.s # <<>> /\ Head(c.s) \in Tags
\* the chunks the event loop appended, in file order
EventLines == SelectSeq(logFile.data, IsEventChunk)
IsLogged(e) == e.kind \in LoggedKinds
\* the consumed events that have a line
LoggedEvents == SelectSeq(consumed, IsLogged)

IsPrefix(a, b) == Len(a) <= Len(b) /\ SubSeq(b, 1, Len(a)) = a


\* each chunk of lines is (the start of) the line of an event of events, and
\* the chunks are in the order of their events
RECURSIVE Embeds(_, _)
Embeds(lines, events) ==
  \/ lines = <<>>
  \/ /\ events # <<>>
     /\ \/ /\ IsPrefix(Head(lines).s, LineOf[Head(events)])
           /\ Embeds(Tail(lines), Tail(events))
        \/ Embeds(lines, Tail(events))

\* C6: the task receives the events in the order the sidecar sent them; the
\* lines in the log are in the order of their events, each with the tag of
\* its event; when no I/O failed there is exactly one line per logged
\* event, in the same order.
C6_LogInEmissionOrder ==
  /\ IsPrefix(consumed, emitted)
  /\ emitted = consumed \o chan
  /\ Embeds(EventLines, LoggedEvents)
  /\ (faults = 0 =>
        /\ Len(EventLines) = Len(LoggedEvents)
        /\ \A i \in 1..Len(LoggedEvents) :
             /\ Head(EventLines[i].s) = TagOf(LoggedEvents[i].kind)
             /\ EventLines[i].s[Len(EventLines[i].s)] = "\n")

\* stdout, stderr and the termination were logged in this order
C6_Witness ==
  /\ faults = 0
  /\ Len(consumed) = 3
  /\ consumed[1].kind = "Stdout"
  /\ consumed[2].kind = "Stderr"
  /\ consumed[3].kind = "Terminated"
  /\ Len(EventLines) = 3
  /\ Head(EventLines[1].s) = "[stdout] "
  /\ Head(EventLines[2].s) = "[stderr] "
  /\ Head(EventLines[3].s) = "[terminated] "

\* C7 as claimed: whatever fails on the log inside the task, the open or a
\* write, the task goes on consuming and ends only when the channel is closed
\* and empty.
C7_TaskEndsOnlyOnClose ==
  task = "done" => chanClosed /\ chan = <<>>

\* C8 as stated: a failure on the log side of the start (path, compaction)
\* still lets start_server spawn the sidecar and return Ok.
C8_LogFailureStillSpawns ==
  startResult # "none" /\ startFault \in PathFaults \cup TruncateFaults =>
    startResult = "Ok" /\ spawnCount = 1

\* the start found a log of more than MAX_SIZE bytes and compacted it
Compacted ==
  /\ startResult # "none"
  /\ logAtStart.exists
  /\ FileSize(logAtStart) > MAX_SIZE
  /\ startFault \in {"none", "sidecar", "spawn"}

\* the task has not opened the log since the start
NotOpened == task \in {"none", "open"}

\* nothing has been appended to the log since the start
NotAppended == task \in {"none", "open", "sep"}

\* C9: a log of S > MAX_SIZE bytes is, after compaction, the banner followed
\* by the bytes max(0, S - KEEP_SIZE) .. S-1 of the original, of size
\* len(banner) + min(S, KEEP_SIZE); later appends leave these in front.
C9_CompactionKeepsTail ==
  Compacted =>
    LET S == FileSize(logAtStart)
        kept == OldChunk(Max(0, S - KEEP_SIZE), S)
        banner == TxtChunk(Banner(S, Min(S, KEEP_SIZE)))
    IN  /\ IsPrefix(<<banner, kept>>, logFile.data)
        /\ ChunkLen(kept) = Min(S, KEEP_SIZE)
        /\ NotAppended =>
             /\ logFile.data = <<banner, kept>>
             /\ FileSize(logFile) = SumLen(banner.s) + Min(S, KEEP_SIZE)

C9_Witness ==
  /\ Compacted
  /\ NotAppended
  /\ FileSize(logAtStart) = MAX_SIZE + 1
  /\ logFile.data[2] = OldChunk(MAX_SIZE + 1 - KEEP_SIZE, MAX_SIZE + 1)
  /\ FileSize(logFile) = 91 + KEEP_SIZE

\* C10: when the log does not exist or has at most MAX_SIZE bytes,
\* truncate_log_file returns Ok and leaves the file as it found it, absent
\* or with its content, whatever could have failed in it; so the start does
\* not fail on it, the file is as it was until the task opens it and its
\* content as it was until the task appends to it.
C10_SmallLogUntouched ==
  /\ startResult # "none"
  /\ ~logAtStart.exists \/ FileSize(logAtStart) <= MAX_SIZE
  =>
  /\ \A fault \in TruncateFaults \cup {"none"} :
       truncate_log_file(logAtStart, fault, 0)
         = [res |-> "Ok", file |-> logAtStart]
  /\ NotOpened => logFile = logAtStart
  /\ NotAppended => logFile.data = logAtStart.data
  /\ IsPrefix(logAtStart.data, logFile.data)
  /\ startFault \in TruncateFaults \cup {"none"} => startResult = "Ok"

C10_Witness ==
  /\ pc = "started"
  /\ logAtStart.exists
  /\ FileSize(logAtStart) = MAX_SIZE
  /\ logFile = logAtStart
  /\ startResult = "Ok"
  /\ task = "open"

\* the same for a log that does not exist
C10_WitnessAbsent ==
  /\ pc = "started"
  /\ ~logAtStart.exists
  /\ ~logFile.exists
  /\ startFault = "create"
  /\ startResult = "Ok"

\* an absent log stays absent until the task opens it, and is then empty
\* until the separator is written
C10_WitnessOpened ==
  /\ ~logAtStart.exists
  /\ task = "sep"
  /\ logFile = [exists |-> TRUE, data |-> <<>>]
  /\ faults = 0

\* the step a comes before the step b in ops
Before(a, b, ops) ==
  \E i, j \in DOMAIN ops : i < j /\ ops[i] = a /\ ops[j] = b

\* C11: a quit handled while the state holds a child handle takes the
\* handle, then issues the kill, then requests the exit; after the handler
\* the state holds no handle, and once the exit is requested every handle
\* that was stored has been killed.
C11_QuitKillsBeforeExit ==
  /\ [](pc \in {"exitRequested", "exited"}
          => state.process = NoChild /\ killRequests = setCount)
  /\ [][Quit /\ state.process # NoChild
          => /\ Before("take", "kill", QuitOps(state))
             /\ Before("kill", "exit", QuitOps(state))
             /\ state'.process = NoChild
             /\ killRequests' = killRequests + 1
             /\ child'.killed
             /\ pc' = "exitRequested"]_vars

C11_Witness ==
  /\ pc = "exitRequested"
  /\ setCount = 1
  /\ killRequests = 1
  /\ child.killed
  /\ child.status = "running"
  /\ state.process = NoChild

\* C12 as claimed: the state holds no handle in any state in which the child
\* has terminated.
C12_NoneAfterTermination ==
  child.status = "exited" => state.process = NoChild

\* C12: the handle is None before the spawn and after shutdown has run; it
\* is set at most once, only by the setup after a successful spawn, and
\* cleared at most once, only by the quit handler; the exit of the child
\* by itself leaves the handle where it is.
C12_HandleSetOnceClearedByQuit ==
  /\ [](spawnCount = 0 => state.process = NoChild)
  /\ [](pc \in {"exitRequested", "exited"} => state.process = NoChild)
  /\ [](setCount <= 1 /\ killRequests <= setCount)
  /\ [][state.process = NoChild /\ state'.process # NoChild
          => /\ pc = "started" /\ startResult = "Ok" /\ spawnCount = 1
             /\ setCount = 0 /\ setCount' = 1]_vars
  /\ [][state.process # NoChild /\ state'.process = NoChild
          => Quit /\ killRequests = 0 /\ killRequests' = 1]_vars
  /\ [][child.status = "running" /\ child'.status = "exited"
          => state'.process = state.process]_vars

C12_Witness ==
  /\ pc = "running"
  /\ child.status = "exited"
  /\ ~child.killed
  /\ setCount = 1
  /\ state.process # NoChild

\* the letters and digits
Alphanumeric ==
  {"a","b","c","d","e","f","g","h","i","j","k","l","m","n","o","p","q","r",
   "s","t","u","v","w","x","y","z"}
  \cup
  {"A","B","C","D","E","F","G","H","I","J","K","L","M","N","O","P","Q","R",
   "S","T","U","V","W","X","Y","Z"}
  \cup {"0","1","2","3","4","5","6","7","8","9"}

\* C13: every generated secret has 32 characters, each a letter or a digit
\* of the 62-character alphabet, whatever the draws were; the query returns
\* that secret.
C13_SecretWellFormed ==
  Managed =>
    /\ Len(secret) = 32
    /\ \A i \in 1..Len(secret) : secret[i] \in Alphanumeric
    /\ Cardinality(Alphanumeric) = 62
    /\ get_server_secret(state) = secret

C13_Witness ==
  /\ Managed
  /\ secret[1] = "9"
  /\ secret[2] = "a"
  /\ secret[31] = "9"
  /\ secret[32] = "a"

\* the lock is held when step j of ops is issued
LockHeldAt(ops, j) ==
  \E i \in 1..(j - 1) :
    ops[i] = "lock" /\ \A m \in i..j : ops[m] # "unlock"

\* some I/O or OS step of ops is issued with the lock held
HeldAcrossIo(ops) ==
  \E j \in DOMAIN ops : ops[j] \in IoOps /\ LockHeldAt(ops, j)

\* a step of SetupStartServer: only the call of start_server records its
\* operations in startOps, and it records them once
StartServerStep == startOps = <<>> /\ startOps' # <<>>

\* C14 as claimed: no step of startup, of the queries or of the quit handler
\* issues a spawn, kill, file or other OS operation while the lock on the
\* state is held.
C14_LockNotHeldAcrossIo ==
  [][/\ (StartServerStep => ~HeldAcrossIo(startOps'))
     /\ (SetupStore => ~HeldAcrossIo(StoreOps))
     /\ ~HeldAcrossIo(QueryOps)
     /\ (Quit => ~HeldAcrossIo(QuitOps(state)))]_vars

\* how often the step op occurs in ops
Count(op, ops) == Cardinality({i \in DOMAIN ops : ops[i] = op})

\* C15 as claimed: every start runs the compaction exactly once.
C15_CompactionOncePerStart ==
  startResult # "none" => Count("truncate_log_file", startOps) = 1

\* C15, amended: a start compacts the log at most once, exactly once when
\* the log path was resolved and not at all when it was not; whenever the
\* child was spawned the compaction came before the spawn and before the
\* task that opens the log; the log is changed by the compaction only while
\* no task exists, and by the task only after start_server has returned.
C15_CompactionBeforeSpawn ==
  /\ [](Count("truncate_log_file", startOps)
          = IF startResult # "none" /\ startFault \notin PathFaults
            THEN 1 ELSE 0)
  /\ [](spawnCount > 0
          => /\ Before("truncate_log_file", "spawn", startOps)
             /\ Before("truncate_log_file", "task", startOps)
             /\ IsPrefix(truncate_log_file(logAtStart, startFault, 0).file.data,
                         logFile.data))
  /\ [](startResult = "none"
          => task = "none" /\ spawnCount = 0 /\ logFile = logAtStart)
  /\ [](task # "none" => startResult = "Ok")
  /\ [][logFile' # logFile
          => \/ StartServerStep /\ task = "none" /\ spawnCount = 0
             \/ startResult = "Ok" /\ task \in {"open", "sep", "loop"}]_vars

C15_Witness ==
  /\ Compacted
  /\ startResult = "Ok"
  /\ spawnCount = 1
  /\ task = "loop"
  /\ logFile.data # truncate_log_file(logAtStart, startFault, 0).file.data
  /\ logAtStart.data # truncate_log_file(logAtStart, startFault, 0).file.data

\* the newlines of a text
Newlines(text) == Cardinality({i \in DOMAIN text : text[i] = "\n"})

\* C16 as claimed, already where no write fails: the log has one event line
\* per consumed Stdout, Stderr, Error or Terminated event, and each line
\* ends in a newline and holds no other newline.
C16_OneLinePerEvent ==
  faults = 0 =>
    /\ Len(EventLines) = Len(LoggedEvents)
    /\ \A i \in 1..Len(EventLines) :
         LET line == EventLines[i].s IN
           /\ line[Len(line)] = "\n"
           /\ Newlines(line) = 1

\* the log as start_server left it: the content of earlier runs, compacted
\* if it was too large
LogAfterStart == truncate_log_file(logAtStart, startFault, 0).file.data

\* what the log holds behind the content start_server left
AfterStart == SubSeq(logFile.data, Len(LogAfterStart) + 1, Len(logFile.data))

\* the part of the separator in front of the event lines, if any
SeparatorPart ==
  IF AfterStart # <<>> /\ ~IsEventChunk(Head(AfterStart))
  THEN <<Head(AfterStart)>> ELSE <<>>

\* C17 as claimed: in every execution the event lines of a run come after
\* the separator of that run.
C17_LinesAfterSeparator ==
  startResult = "Ok" /\ EventLines # <<>> =>
    /\ Len(logFile.data) > Len(LogAfterStart)
    /\ logFile.data[Len(LogAfterStart) + 1] = TxtChunk(Separator)

\* C17, amended: no event is consumed before the task has tried to write the
\* separator; the separator and every line after it are appended behind the
\* content start_server left, which stays as it was; behind that content the
\* log holds what the write of the separator accepted, then the event lines
\* and nothing else; the separator is whole unless a write failed, and a
\* successful write of it appends exactly the separator.
C17_SeparatorBeforeEvents ==
  /\ [](task \in {"none", "open", "sep"}
          => consumed = <<>> /\ EventLines = <<>>)
  /\ [](startResult = "Ok"
          => /\ IsPrefix(LogAfterStart, logFile.data)
             /\ \A i \in 1..Len(logFile.data) :
                  IsEventChunk(logFile.data[i]) => i > Len(LogAfterStart))
  /\ [](task \in {"loop", "done"}
          => /\ AfterStart = SeparatorPart \o EventLines
             /\ SeparatorPart = TakeBytes(SeparatorBuf, DataLen(SeparatorPart))
             /\ SeparatorPart # SeparatorBuf => faults > 0)
  /\ [][task = "sep" /\ task' = "loop" /\ faults' = faults
          => logFile'.data = Append(logFile.data, TxtChunk(Separator))]_vars

\* the separator was written whole behind the content of an earlier run, and
\* two event lines behind it
C17_Witness ==
  /\ task = "loop"
  /\ faults = 0
  /\ LogAfterStart # <<>>
  /\ Len(EventLines) = 2
  /\ logFile.data[Len(LogAfterStart) + 1] = TxtChunk(Separator)
  /\ logFile.data[Len(LogAfterStart) + 2] = EventLines[1]

\* the write of the separator failed part way, and an event line follows
\* the part that was written
C17_WitnessPart ==
  /\ task = "loop"
  /\ faults = 1
  /\ SeparatorPart # <<>>
  /\ SeparatorPart # SeparatorBuf
  /\ Len(EventLines) = 1

\* C18: while the application lives, a task whose channel is closed drains
\* what is left and then ends; the task goes from none to open to sep to
\* loop to done and never back, and only the one start of the sidecar
\* creates it.
C18_TaskTerminates ==
  /\ (task \in {"open", "sep", "loop"} /\ chanClosed)
       ~> (task = "done" \/ ~AppAlive)
  /\ [](task = "done" /\ consumed # <<>> => chanClosed /\ chan = <<>>)
  /\ [][task' # task
          => \/ task = "none" /\ task' = "open" /\ StartServerStep
             \/ task = "open" /\ task' \in {"sep", "done"}
             \/ task = "sep" /\ task' = "loop"
             \/ task = "loop" /\ task' = "done"]_vars
  /\ [][task = "done" => task' = "done"]_vars

C18_Witness ==
  /\ pc = "running"
  /\ task = "done"
  /\ chanClosed
  /\ chan = <<>>
  /\ Len(consumed) = 3
  /\ consumed[3].kind = "Terminated"

\* C19 as claimed: when the application process has ended, by exit or by a
\* failed setup, no child is left running without its handle taken and a
\* kill request issued.
C19_NoOrphanOnExit ==
  pc \in {"exited", "panicked"} /\ child.status = "running"
    => killRequests = 1 /\ state.process = NoChild

\* C20: a close request hides the window and changes nothing else: the
\* state, the child, the kill requests and the place of run() stay as they
\* were; whenever the window gets hidden the same holds; only the quit
\* handler takes the handle, asks for a kill or requests the exit, and the
\* application exits only after such a request.
C20_CloseOnlyHides ==
  /\ [][CloseRequested
          => /\ window' \in {"hidden", window}
             /\ state' = state /\ child' = child /\ pc' = pc
             /\ killRequests' = killRequests /\ task' = task]_vars
  /\ [][window' # window
          => /\ state' = state /\ child' = child /\ pc' = pc
             /\ killRequests' = killRequests]_vars
  /\ [][\/ killRequests' # killRequests
        \/ state.process # NoChild /\ state'.process = NoChild
        \/ ~child.killed /\ child'.killed
        \/ pc # "exitRequested" /\ pc' = "exitRequested"
          => Quit]_vars
  /\ [][pc # "exited" /\ pc' = "exited" => pc = "exitRequested"]_vars

C20_Witness ==
  /\ window = "hidden"
  /\ pc = "running"
  /\ child.status = "running"
  /\ state.process # NoChild
  /\ killRequests = 0
  /\ get_server_port(state) = port
  /\ get_server_secret(state) = secret

====
